---- MODULE Spec2Model ----
(***************************************************************************)
(* Model of the dune-uploader batch jobs:                                  *)
(*   daily_fx_upload.py            (comp = "daily")                        *)
(*   backfill_fx_rates.py          (comp = "backfill")                     *)
(*   trademade-dune-fx-upload.py   (comp = "update")                       *)
(*   dune_fx_sync.py               (comp = "sync")                         *)
(*   load_relay_requests_daily.py  (comp = "relay")                        *)
(* Every job is a single sequential process; one run of one job is one     *)
(* behaviour.  Floating-point rates are modelled exactly: a provider value *)
(* is a rational n/d, the result of round(x, 8) is an 8-decimal fixed      *)
(* point value with integer part i and fraction f (in units of 1e-8).      *)
(***************************************************************************)
EXTENDS Integers, Sequences, FiniteSets, TLC

VARIABLES
    comp,           \* which script this run executes
    pc,             \* position in the script
    exitCode,       \* process exit status, meaningful once pc = "exit"
    events,         \* every network call, file write and sleep, in order
    today,          \* datetime.today() as a day number (day 0 is a Monday)
    DUNE_API_KEY,   \* TRUE iff the environment variable is set and non-empty
    rates,          \* provider data of the daily loader / daily update
    df_friday,      \* weekend backfill: Friday snapshot (or None)
    df_monday,      \* weekend backfill: Monday snapshot (or None)
    rows,           \* rows built so far (all_rates in the bulk sync)
    df_final,       \* the frame that is serialised to CSV
    csv_body,       \* body of the insert POST
    ci,             \* bulk sync: index of the next currency to fetch
    all_requests,   \* relay loader: collected requests
    seen,           \* relay loader: ids already collected
    continuation,   \* relay loader: cursor for the next page
    pages,          \* relay loader: number of pages fetched
    csv_file,       \* relay loader: content of relay_requests_<date>.csv
    columns,        \* relay loader: column labels of the frame df / df_day
    csv_header,     \* relay loader: header row of relay_requests_<date>.csv
    fetched,        \* relay loader: the distinct items of the pages received,
                    \* in the order they first appeared
    returned        \* relay loader: the continuation of every page received

runVars == <<comp, today, DUNE_API_KEY>>
fxVars == <<rates, df_friday, df_monday>>
relayVars == <<all_requests, seen, continuation, pages, csv_file, columns,
              csv_header, fetched, returned>>
vars == <<comp, pc, exitCode, events, today, DUNE_API_KEY, rates, df_friday,
          df_monday, rows, df_final, csv_body, ci, all_requests, seen,
          continuation, pages, csv_file, columns, csv_header, fetched,
          returned>>

----------------------------------------------------------------------------
(* Numbers *)

\* round(x, 8): the number of decimals every script rounds to
DECIMALS == 8

RECURSIVE Pow10(_)
Pow10(k) == IF k = 0 THEN 1 ELSE 10 * Pow10(k - 1)

ONE8 == Pow10(DECIMALS)

\* values a Python float can take in these scripts
Num(n, d) == [k |-> "num", n |-> n, d |-> d]
NaN == [k |-> "nan", n |-> 0, d |-> 1]
None == [k |-> "none", n |-> 0, d |-> 1]

\* 8-decimal fixed point: i + f / 1e8
Fix(i, f) == [k |-> "num", i |-> i, f |-> f]
FixNaN == [k |-> "nan", i |-> 0, f |-> 0]
FixInf == [k |-> "inf", i |-> 0, f |-> 0]
FixOne == Fix(1, 0)

IsZeroFix(x) == x.k = "num" /\ x.i = 0 /\ x.f = 0

\* the fractional digits of r/d: <<digits as a number, remainder>> after k steps
RECURSIVE FracDigits(_, _, _, _)
FracDigits(r, d, k, acc) ==
    IF k = 0 THEN <<acc, r>>
    ELSE FracDigits((r * 10) % d, d, k - 1, acc * 10 + ((r * 10) \div d))

\* round(n / (d * 10^c), 8) for exact n, d, with k = 8 - c digits still to
\* produce; ties go to the even digit, as Python's round does
RECURSIVE RoundDivK(_, _, _)
RoundDivK(n, d, k) ==
    IF k > 0 /\ d % 10 = 0 THEN RoundDivK(n, d \div 10, k - 1)
    ELSE LET c == DECIMALS - k
             q == n \div d
             fd == FracDigits(n % d, d, k, 0)
             f0 == (q % Pow10(c)) * Pow10(k) + fd[1]
             i0 == q \div Pow10(c)
             r == fd[2]
             up == (2 * r > d) \/ (2 * r = d /\ f0 % 2 = 1)
             f1 == IF up THEN f0 + 1 ELSE f0
         IN  IF f1 = ONE8 THEN Fix(i0 + 1, 0) ELSE Fix(i0, f1)

\* round(x, 8) of a float x
Round8(x) == IF x.k = "num" THEN RoundDivK(x.n, x.d, DECIMALS) ELSE FixNaN

\* 1 / x for a non-zero float x
Recip(x) == IF x.k = "num" THEN Num(x.d, x.n) ELSE NaN

\* the float holding exactly an 8-decimal value
FromFix(x) == IF x.k = "num" THEN Num(x.i * ONE8 + x.f, ONE8) ELSE NaN

\* a/b + c/d, brought to the larger denominator when one divides the other
RatAdd(a, b) ==
    IF a.d = b.d THEN Num(a.n + b.n, a.d)
    ELSE IF b.d % a.d = 0 THEN Num(a.n * (b.d \div a.d) + b.n, b.d)
    ELSE IF a.d % b.d = 0 THEN Num(a.n + b.n * (a.d \div b.d), a.d)
    ELSE Num(a.n * b.d + b.n * a.d, a.d * b.d)

\* (w/3) * x
Thirds(w, x) == Num(w * x.n, 3 * x.d)

\* round((wa/3) * a + (wb/3) * b, 8)
Blend(wa, a, wb, b) == Round8(RatAdd(Thirds(wa, a), Thirds(wb, b)))

----------------------------------------------------------------------------
(* Configuration shared by the scripts *)

BASE == "USD"

CURRENCIES_DAILY ==
    <<"AED", "ARS", "AUD", "CAD", "CHF", "CNY", "EUR", "GBP", "HKD", "IDR",
      "ILS", "JPY", "KES", "MXN", "MYR", "NZD", "PLN", "SAR",
      "SGD", "THB", "TRY", "USD", "VND", "ZAR">>

CURRENCIES ==
    <<"AED", "AUD", "CAD", "CHF", "CNY", "EUR", "GBP", "HKD", "IDR",
      "ILS", "JPY", "KES", "MXN", "MYR", "NZD", "PLN", "SAR",
      "SGD", "THB", "TRY", "USD", "VND", "ZAR">>

\* number of non-base currencies of a list that a run of the daily loader
\* or the daily update works on
NCur == 2
\* the same for the weekend backfill, which fetches two snapshots
NCurPair == 1

\* the currencies modelled: the first n of the list, and the base currency
Universe(cs, n) == SubSeq(cs, 1, n) \o <<BASE>>

Range(s) == {s[i] : i \in 1..Len(s)}

\* position of a currency code in alphabetical order (both lists are sorted)
CurIndex(c) == CHOOSE i \in 1..Len(CURRENCIES_DAILY) : CURRENCIES_DAILY[i] = c

HTTP_OK == 200

\* an insert/clear response: a status code, or no response at all (transport
\* exception raised by requests.post)
PostOutcomes ==
    {[err |-> FALSE, status |-> st, text |-> ""] : st \in {HTTP_OK, 400, 500}}
    \cup {[err |-> TRUE, status |-> 0, text |-> ""]}

\* an entry of the run's record: a request with the response it got (err:
\* it raised instead) and what the script made of it (verdict: "ok" or
\* "failed", as printed or raised), a sleep, or a file write
Ev(op, to, status, err, text, token, verdict) ==
    [op |-> op, to |-> to, status |-> status, err |-> err, text |-> text,
     token |-> token, verdict |-> verdict]

Get(to, token) == Ev("GET", to, HTTP_OK, FALSE, "", token, "ok")
GetFailed(to, token) == Ev("GET", to, 0, TRUE, "", token, "failed")
Post(to, r, ok) ==
    Ev("POST", to, r.status, r.err, r.text, "",
       IF ok /\ ~r.err THEN "ok" ELSE "failed")
Sleep(to) == Ev("sleep", to, 0, FALSE, "", "", "")
WriteCsv == Ev("write", "csv", 0, FALSE, "", "", "")

\* calendar: day numbers, day 0 a Monday; weekday() as in Python (Monday = 0)
Weekday(d) == d % 7
Days == 7..13
Min(S) == CHOOSE x \in S : \A y \in S : x <= y

Row(date, currency, fx_rate, inverse_fx_rate) ==
    [date |-> date, currency |-> currency, fx_rate |-> fx_rate,
     inverse_fx_rate |-> inverse_fx_rate]

\* df.dropna(subset=[fx_rate, inverse_fx_rate]) followed by
\* df[(fx_rate != 0) & (inverse_fx_rate != 0)]
KeepRow(r) ==
    /\ r.fx_rate.k # "nan" /\ r.inverse_fx_rate.k # "nan"
    /\ ~IsZeroFix(r.fx_rate) /\ ~IsZeroFix(r.inverse_fx_rate)

\* a clean-up that drops the absent rates only
CleanUpNaNOnly(df) ==
    SelectSeq(df, LAMBDA r : r.fx_rate.k # "nan" /\ r.inverse_fx_rate.k # "nan")

CleanUp(df) == SelectSeq(df, KeepRow)

\* exit(code), SystemExit and an uncaught exception all end the process
Exit(code) == pc' = "exit" /\ exitCode' = code

\* the POST of the CSV body that ends the three FX upload scripts
\* (daily_fx_upload.py 121-128, backfill_fx_rates.py 130-137,
\*  trademade-dune-fx-upload.py 100-112): the response is only printed
UploadCsv(c) ==
    /\ comp = c /\ pc = "upload"
    /\ \E r \in PostOutcomes :
          events' = Append(events, Post("insert", r, r.status = HTTP_OK))
    /\ csv_body' = df_final
    /\ Exit(0)
    /\ UNCHANGED <<runVars, fxVars, rows, df_final, ci, relayVars>>

----------------------------------------------------------------------------
(* daily_fx_upload.py *)

\* conversion_rates values (units of the currency per 1 USD) the
\* currency-history API may return for one currency
DailyRateValues ==
    {None, NaN, Num(0, 1), Num(254315, 10), Num(145123456, 1000000),
     Num(78, 100), Num(300000000, 1)}

DailyUniverse == Universe(CURRENCIES_DAILY, NCur)

\* the conversion_rates objects: the base currency itself is always quoted 1
DailyRates ==
    {f \in [Range(DailyUniverse) -> DailyRateValues \cup {Num(1, 1)}] :
        /\ f[BASE] = Num(1, 1)
        /\ \A c \in Range(DailyUniverse) \ {BASE} : f[c] \in DailyRateValues}

\* lines 25-36: one GET; a transport failure or a result other than
\* "success" ends the run with exit(1)
DailyFetch ==
    /\ comp = "daily" /\ pc = "fetch"
    /\ \/ /\ \E f \in DailyRates : rates' = f
          /\ events' = Append(events, Get("exchangerate", ""))
          /\ pc' = "transform"
          /\ UNCHANGED exitCode
       \/ /\ events' = Append(events, GetFailed("exchangerate", ""))
          /\ Exit(1)
          /\ UNCHANGED rates
    /\ UNCHANGED <<runVars, df_friday, df_monday, rows, df_final, csv_body,
                   ci, relayVars>>

\* a transform that dates the row one day back
DailyRowDatedYesterday(currency, fx) ==
    IF fx.k = "none" \/ (fx.k = "num" /\ fx.n = 0) THEN <<>>
    ELSE <<Row(today - 1, currency, Round8(Recip(fx)), Round8(fx))>>

\* a transform that stores the provider value in both columns
DailyRowNoReciprocal(currency, fx) ==
    IF fx.k = "none" \/ (fx.k = "num" /\ fx.n = 0) THEN <<>>
    ELSE <<Row(today, currency, Round8(fx), Round8(fx))>>

\* lines 40-52, for one currency: <<>> when skipped
DailyRow(currency, fx) ==
    IF fx.k = "none" \/ (fx.k = "num" /\ fx.n = 0) THEN <<>>
    ELSE <<Row(today, currency, Round8(Recip(fx)), Round8(fx))>>

RECURSIVE DailyRows(_, _)
DailyRows(cs, rs) ==
    IF cs = <<>> THEN <<>>
    ELSE DailyRow(Head(cs), rs[Head(cs)]) \o DailyRows(Tail(cs), rs)

\* lines 39-55
DailyTransform ==
    /\ comp = "daily" /\ pc = "transform"
    /\ rows' = DailyRows(DailyUniverse, rates)
    /\ pc' = "backfill"
    /\ UNCHANGED <<runVars, fxVars, exitCode, events, df_final, csv_body, ci,
                   relayVars>>

\* stable insertion sort of rows by (currency, date)
RowLeq(a, b) ==
    \/ CurIndex(a.currency) < CurIndex(b.currency)
    \/ a.currency = b.currency /\ a.date <= b.date

RECURSIVE InsertRow(_, _)
InsertRow(r, s) ==
    IF s = <<>> THEN <<r>>
    ELSE IF RowLeq(Head(s), r) THEN <<Head(s)>> \o InsertRow(r, Tail(s))
    ELSE <<r>> \o s

RECURSIVE SortRows(_)
SortRows(s) ==
    IF s = <<>> THEN <<>>
    ELSE InsertRow(s[Len(s)], SortRows(SubSeq(s, 1, Len(s) - 1)))

\* currencies of a frame in order of first appearance (df["currency"].unique())
RECURSIVE Unique(_, _)
Unique(s, acc) ==
    IF s = <<>> THEN acc
    ELSE Unique(Tail(s),
                IF Head(s).currency \in {acc[i] : i \in 1..Len(acc)}
                THEN acc ELSE Append(acc, Head(s).currency))

\* 1 / x of an 8-decimal value, rounded to 8 decimals
InverseOf(x) == IF IsZeroFix(x) THEN FixInf ELSE Round8(Recip(FromFix(x)))

\* lines 66-93 for one currency frame and one i (1-based: prev = cdf[i-1])
Synthesized(cdf, i) ==
    LET prev == cdf[i - 1]
        curr == cdf[i]
        next == cdf[i + 1]
        sat == Blend(2, FromFix(prev.fx_rate), 1, FromFix(curr.fx_rate))
        sun == Blend(1, FromFix(prev.fx_rate), 2, FromFix(curr.fx_rate))
    IN  (IF curr.date - prev.date = 2 /\ Weekday(prev.date) = 4
            /\ Weekday(curr.date) = 6
         THEN <<Row(prev.date + 1, curr.currency, sat, InverseOf(sat))>>
         ELSE <<>>)
        \o
        (IF next.date - curr.date = 2 /\ Weekday(curr.date) = 0
            /\ Weekday(prev.date) = 4
         THEN <<Row(curr.date - 1, curr.currency, sun, InverseOf(sun))>>
         ELSE <<>>)

RECURSIVE SynthesizedFrom(_, _)
SynthesizedFrom(cdf, i) ==
    IF i > Len(cdf) - 1 THEN <<>>
    ELSE Synthesized(cdf, i) \o SynthesizedFrom(cdf, i + 1)

RECURSIVE BackfilledRows(_, _)
BackfilledRows(df, cs) ==
    IF cs = <<>> THEN <<>>
    ELSE LET currency_df ==
                 SortRows(SelectSeq(df, LAMBDA r : r.currency = Head(cs)))
         IN  SynthesizedFrom(currency_df, 2) \o BackfilledRows(df, Tail(cs))

\* lines 58-97
backfill_weekend_rates(df) ==
    SortRows(df \o BackfilledRows(df, Unique(df, <<>>)))

\* line 99; an empty frame has no "date" column and df["date"] raises
DailyBackfill ==
    /\ comp = "daily" /\ pc = "backfill"
    /\ IF rows = <<>>
       THEN Exit(1) /\ UNCHANGED rows
       ELSE /\ rows' = backfill_weekend_rates(rows)
            /\ pc' = "cleanup"
            /\ UNCHANGED exitCode
    /\ UNCHANGED <<runVars, fxVars, events, df_final, csv_body, ci, relayVars>>

\* lines 101-110
DailyCleanUp ==
    /\ comp = "daily" /\ pc = "cleanup"
    /\ df_final' = CleanUp(rows)
    /\ IF df_final' = <<>> THEN Exit(1)
       ELSE pc' = "upload" /\ UNCHANGED exitCode
    /\ UNCHANGED <<runVars, fxVars, events, rows, csv_body, ci, relayVars>>

\* lines 112-128
DailyUpload == UploadCsv("daily")

----------------------------------------------------------------------------
(* The market-data provider (tm.historical) used by the daily update and   *)
(* the weekend backfill: a frame of rows (instrument, close), the          *)
(* instrument a pair <<base, quote>> of 3-letter codes                     *)

Quote(pair, close) == [instrument |-> pair, close |-> close]

\* frames holding at most one row per requested pair, in request order,
\* with closes drawn from `closes`, followed by one of the `extra` tails
RECURSIVE PairRows(_, _)
PairRows(cs, g) ==
    IF cs = <<>> THEN <<>>
    ELSE (IF g[Head(cs)].k = "none" THEN <<>>
          ELSE <<Quote(<<Head(cs), BASE>>, g[Head(cs)])>>)
         \o PairRows(Tail(cs), g)

Frames(cs, closes, extra) ==
    LET pairlist == SelectSeq(cs, LAMBDA c : c # BASE)
    IN  {PairRows(pairlist, g) \o x :
            g \in [Range(pairlist) -> closes \cup {None}], x \in extra}

\* the per-unit rate of a row: close when the quote leg is the base
\* currency, 1 / close otherwise
PerUnit(q) ==
    IF q.instrument[2] = BASE THEN q.close ELSE Recip(q.close)

IsZero(x) == x.k = "num" /\ x.n = 0

\* 1 / close raises ZeroDivisionError for a close of 0.0
DividesByZero(q) == q.instrument[2] # BASE /\ IsZero(q.close)

----------------------------------------------------------------------------
(* trademade-dune-fx-upload.py *)

UpdateUniverse == Universe(CURRENCIES, NCur)

UpdateCloses ==
    {NaN, Num(0, 1), Num(39321, 1000000000), Num(10853, 10000),
     Num(1, 500000000)}

\* a row for a pair that was not requested, quoted the other way round
UpdateExtra ==
    {<<>>, <<Quote(<<BASE, "EUR">>, Num(4, 5))>>,
     <<Quote(<<BASE, "EUR">>, Num(0, 1))>>}

\* lines 27-32
UpdateFetch ==
    /\ comp = "update" /\ pc = "fetch"
    /\ \/ /\ \E df \in Frames(UpdateUniverse, UpdateCloses, UpdateExtra) :
                rates' = df
          /\ events' = Append(events, Get("tradermade", ""))
          /\ pc' = "transform"
          /\ UNCHANGED exitCode
       \/ /\ events' = Append(events, GetFailed("tradermade", ""))
          /\ Exit(1)
          /\ UNCHANGED rates
    /\ UNCHANGED <<runVars, df_friday, df_monday, rows, df_final, csv_body,
                   ci, relayVars>>

\* lines 36-67 for one row of the frame: <<>> when skipped
UpdateRow(q) ==
    LET fx == PerUnit(q)
    IN  IF IsZero(fx) \/ fx.k = "nan" THEN <<>>
        ELSE <<Row(today, q.instrument[1], Round8(fx), Round8(Recip(fx)))>>

RECURSIVE UpdateRows(_)
UpdateRows(df) ==
    IF df = <<>> THEN <<>> ELSE UpdateRow(Head(df)) \o UpdateRows(Tail(df))

\* lines 34-75: the loop, then the base row
UpdateTransform ==
    /\ comp = "update" /\ pc = "transform"
    /\ IF \E j \in 1..Len(rates) : DividesByZero(rates[j])
       THEN Exit(1) /\ UNCHANGED rows
       ELSE /\ rows' = Append(UpdateRows(rates), Row(today, BASE, FixOne, FixOne))
            /\ pc' = "cleanup"
            /\ UNCHANGED exitCode
    /\ UNCHANGED <<runVars, fxVars, events, df_final, csv_body, ci, relayVars>>

\* lines 77-89
UpdateCleanUp ==
    /\ comp = "update" /\ pc = "cleanup"
    /\ df_final' = CleanUp(rows)
    /\ IF df_final' = <<>> THEN Exit(1)
       ELSE pc' = "upload" /\ UNCHANGED exitCode
    /\ UNCHANGED <<runVars, fxVars, events, rows, csv_body, ci, relayVars>>

\* lines 91-112
UpdateUpload == UploadCsv("update")

----------------------------------------------------------------------------
(* backfill_fx_rates.py *)

BackfillUniverse == Universe(CURRENCIES, NCurPair)

BackfillCloses ==
    {NaN, Num(0, 1), Num(1, 500000000), Num(3932, 100000000), Num(11, 10),
     Num(12, 10)}

NoFrame == <<Quote(<<>>, None)>>

\* fetch_fx, lines 39-46: the frame, or None (here NoFrame) on any exception
Snapshots == Frames(BackfillUniverse, BackfillCloses, {<<>>}) \cup {NoFrame}

\* a gate that takes Monday to be weekday 1
NotMondayFromOne == Weekday(today) # 1

\* line 22: today.weekday() != 0
NotMonday == Weekday(today) # 0

\* lines 20-24
BackfillGate ==
    /\ comp = "backfill" /\ pc = "start"
    /\ IF NotMonday THEN Exit(1)
       ELSE pc' = "fetch_friday" /\ UNCHANGED exitCode
    /\ UNCHANGED <<runVars, fxVars, events, rows, df_final, csv_body, ci,
                   relayVars>>

\* line 48
BackfillFetchFriday ==
    /\ comp = "backfill" /\ pc = "fetch_friday"
    /\ \E df \in Snapshots :
          /\ df_friday' = df
          /\ events' = Append(events, IF df = NoFrame
                                      THEN GetFailed("tradermade", "friday")
                                      ELSE Get("tradermade", "friday"))
    /\ pc' = "fetch_monday"
    /\ UNCHANGED <<runVars, rates, df_monday, exitCode, rows, df_final,
                   csv_body, ci, relayVars>>

\* lines 49-53
BackfillFetchMonday ==
    /\ comp = "backfill" /\ pc = "fetch_monday"
    /\ \E df \in Snapshots :
          /\ df_monday' = df
          /\ events' = Append(events, IF df = NoFrame
                                      THEN GetFailed("tradermade", "monday")
                                      ELSE Get("tradermade", "monday"))
    /\ IF df_friday = NoFrame \/ df_monday' = NoFrame THEN Exit(1)
       ELSE pc' = "build" /\ UNCHANGED exitCode
    /\ UNCHANGED <<runVars, rates, df_friday, rows, df_final, csv_body, ci,
                   relayVars>>

\* extract_fx, lines 56-70: per-unit rate by base leg, later rows winning
RECURSIVE extract_fx(_, _)
extract_fx(df, acc) ==
    IF df = <<>> THEN acc
    ELSE LET q == Head(df)
             skip == \/ Len(q.instrument) # 2
                     \/ q.close.k # "num"
                     \/ IsZero(q.close)
         IN  extract_fx(Tail(df),
                        IF skip THEN acc
                        ELSE (q.instrument[1] :> PerUnit(q)) @@ acc)

NoRates == [c \in {} |-> None]

\* lines 84-85
SatFx(F, M) == Blend(2, F, 1, M)
SunFx(F, M) == Blend(1, F, 2, M)

\* lines 79-99: the currencies that get a row
Blended(fri_rates, mon_rates) ==
    SelectSeq(BackfillUniverse,
              LAMBDA cur : cur \in DOMAIN fri_rates /\ cur \in DOMAIN mon_rates)

\* lines 84, 87-92: the Saturday row of each blended currency
SaturdayRows(cs, fri_rates, mon_rates, date) ==
    [j \in 1..Len(cs) |->
        LET sat_fx == SatFx(fri_rates[cs[j]], mon_rates[cs[j]])
        IN  Row(date, cs[j], sat_fx, InverseOf(sat_fx))]

\* lines 85, 94-99: the Sunday row of each blended currency
SundayRows(cs, fri_rates, mon_rates, date) ==
    [j \in 1..Len(cs) |->
        LET sun_fx == SunFx(fri_rates[cs[j]], mon_rates[cs[j]])
        IN  Row(date, cs[j], sun_fx, InverseOf(sun_fx))]

\* lines 72-117; round(1 / sat_fx, 8) raises ZeroDivisionError when the
\* blended rate rounds to 0.0
BackfillBuild ==
    /\ comp = "backfill" /\ pc = "build"
    /\ LET fri_rates == extract_fx(df_friday, NoRates)
           mon_rates == extract_fx(df_monday, NoRates)
           friday == today - 3
           cs == Blended(fri_rates, mon_rates)
           saturday_rows ==
               Append(SaturdayRows(cs, fri_rates, mon_rates, friday + 1),
                      Row(friday + 1, BASE, FixOne, FixOne))
           sunday_rows ==
               Append(SundayRows(cs, fri_rates, mon_rates, friday + 2),
                      Row(friday + 2, BASE, FixOne, FixOne))
       IN  IF \E j \in 1..Len(cs) :
                 \/ IsZeroFix(SatFx(fri_rates[cs[j]], mon_rates[cs[j]]))
                 \/ IsZeroFix(SunFx(fri_rates[cs[j]], mon_rates[cs[j]]))
           THEN Exit(1) /\ UNCHANGED <<rows, df_final>>
           ELSE /\ rows' = saturday_rows \o sunday_rows
                /\ df_final' = CleanUp(rows')
                /\ pc' = "upload"
                /\ UNCHANGED exitCode
    /\ UNCHANGED <<runVars, fxVars, events, csv_body, ci, relayVars>>

\* lines 121-137
BackfillUpload == UploadCsv("backfill")

----------------------------------------------------------------------------
(* dune_fx_sync.py *)

\* number of non-base currencies the bulk sync works on
NCurSync == 2

SyncUniverse == Universe(CURRENCIES, NCurSync)

\* number of dates in the range start_date .. end_date
NDates == 1

Inf == [k |-> "inf", n |-> 0, d |-> 1]

\* 1 / x on a pandas column: no exception, 1 / 0 is inf and 1 / inf is 0
PdRecip(x) ==
    IF x.k = "nan" THEN NaN
    ELSE IF x.k = "inf" THEN Num(0, 1)
    ELSE IF x.n = 0 THEN Inf
    ELSE Num(x.d, x.n)

\* closes the quote source may return for one date
SyncCloses == {Num(0, 1), NaN, Num(92, 100)}

\* a series: one close per date; <<>> is an empty frame
Series == [1..NDates -> SyncCloses]

\* what yf.download returns, or that it raises
Downloads == Series \cup {<<>>}

\* lines 77-94 for one non-empty frame: the rows appended to all_rates
SyncRows(currency, close) ==
    [j \in 1..Len(close) |-> Row(j, currency, close[j], PdRecip(close[j]))]

\* fetch_yahoo_finance_rates for the base currency, lines 31-36
BaseSeries == [j \in 1..NDates |-> Num(1, 1)]

\* df['Close'] = 1 / df['Close'], line 66
Inverted(series) == [j \in 1..Len(series) |-> PdRecip(series[j])]

\* one iteration of the loop of main, lines 77-94, with the call of
\* fetch_yahoo_finance_rates, lines 30-72
SyncFetch ==
    /\ comp = "sync" /\ pc = "fetch" /\ ci <= Len(SyncUniverse)
    /\ LET currency == SyncUniverse[ci]
           Took(df, evs) ==
               /\ events' = events \o evs
                              \o (IF df = <<>> THEN <<>> ELSE <<Sleep("yahoo")>>)
               /\ rows' = rows \o SyncRows(currency, df)
       IN  IF currency = BASE
           THEN Took(BaseSeries, <<>>)
           ELSE \/ \* the primary ticker raises: an empty frame
                   Took(<<>>, <<GetFailed("yahoo", "primary")>>)
                \/ \* the primary ticker has data: inverted
                   \E data \in Series :
                      Took(Inverted(data), <<Get("yahoo", "primary")>>)
                \/ \* no data: the fallback ticker, used as it is
                   \E data \in Downloads :
                      Took(data, <<Get("yahoo", "primary"),
                                   Get("yahoo", "fallback")>>)
    /\ ci' = ci + 1
    /\ UNCHANGED <<runVars, fxVars, pc, exitCode, df_final, csv_body,
                   relayVars>>

\* rows ordered by (date, currency)
DateCurLeq(a, b) ==
    \/ a.date < b.date
    \/ a.date = b.date /\ CurIndex(a.currency) <= CurIndex(b.currency)

RECURSIVE InsertByDate(_, _)
InsertByDate(r, s) ==
    IF s = <<>> THEN <<r>>
    ELSE IF DateCurLeq(Head(s), r) THEN <<Head(s)>> \o InsertByDate(r, Tail(s))
    ELSE <<r>> \o s

RECURSIVE SortByDate(_)
SortByDate(s) ==
    IF s = <<>> THEN <<>>
    ELSE InsertByDate(s[Len(s)], SortByDate(SubSeq(s, 1, Len(s) - 1)))

\* lines 96-100
SyncCombine ==
    /\ comp = "sync" /\ pc = "fetch" /\ ci > Len(SyncUniverse)
    /\ IF rows = <<>> THEN Exit(0) /\ UNCHANGED df_final
       ELSE /\ df_final' = SortByDate(rows)
            /\ pc' = "create"
            /\ UNCHANGED exitCode
    /\ UNCHANGED <<runVars, fxVars, events, rows, csv_body, ci, relayVars>>

ALREADY_EXISTS == "already exists"

\* responses to the table-create request
CreateOutcomes ==
    {[err |-> FALSE, status |-> st, text |-> ""] : st \in {HTTP_OK, 201, 409, 400}}
    \cup {[err |-> FALSE, status |-> st, text |-> ALREADY_EXISTS] :
             st \in {409, 400}}
    \cup {[err |-> TRUE, status |-> 0, text |-> ""]}

\* what main prints about the create response, lines 130-135
SyncCreateResult(r) ==
    IF r.status = HTTP_OK THEN "created"
    ELSE IF r.text = ALREADY_EXISTS THEN "exists"
    ELSE "failed"

\* lines 129-135: whatever the response, main goes on; only an exception
\* raised by requests.post ends the run
SyncCreate ==
    /\ comp = "sync" /\ pc = "create"
    /\ \E r \in CreateOutcomes :
          /\ events' = Append(events,
                               Post("create", r, SyncCreateResult(r) # "failed"))
          /\ IF r.err THEN Exit(1)
             ELSE pc' = "clear" /\ UNCHANGED exitCode
    /\ UNCHANGED <<runVars, fxVars, rows, df_final, csv_body, ci, relayVars>>

\* a clear step that ends the run on every response other than 200
ClearAbortsUnless200(r) == r.err \/ r.status # HTTP_OK

\* lines 139-144: the response is only printed; nothing but an exception
\* raised by requests.post ends the run here
ClearAborts(r) == r.err

\* lines 138-144
SyncClear ==
    /\ comp = "sync" /\ pc = "clear"
    /\ \E r \in PostOutcomes :
          /\ events' = Append(events, Post("clear", r, r.status = HTTP_OK))
          /\ IF ClearAborts(r) THEN Exit(1)
             ELSE pc' = "insert" /\ UNCHANGED exitCode
    /\ UNCHANGED <<runVars, fxVars, rows, df_final, csv_body, ci, relayVars>>

\* lines 147-161
SyncInsert ==
    /\ comp = "sync" /\ pc = "insert"
    /\ csv_body' = df_final
    /\ \E r \in PostOutcomes :
          /\ events' = Append(events, Post("insert", r, r.status = HTTP_OK))
          /\ IF r.err THEN Exit(1) ELSE Exit(0)
    /\ UNCHANGED <<runVars, fxVars, rows, df_final, ci, relayVars>>

----------------------------------------------------------------------------
(* load_relay_requests_daily.py *)

\* instants are seconds since 00:00:00 UTC of day 0, with the milliseconds
\* kept apart; NaT is a createdAt that does not parse
Instant(day, h, m, sec, ms) ==
    [k |-> "ts", s |-> ((day * 24 + h) * 60 + m) * 60 + sec, ms |-> ms]
NaT == [k |-> "nat", s |-> 0, ms |-> 0]

\* UTC offset of Europe/Amsterdam in hours (the modelled days are in June)
AMSTERDAM_UTC_OFFSET == 2

\* compute_local_day_window_eu_amsterdam without --date, lines 285-298:
\* yesterday's local 00:00:00 and 23:59:59 as UTC seconds
TargetDay == today - 1
start_utc == ((TargetDay * 24 + 0 - AMSTERDAM_UTC_OFFSET) * 60 + 0) * 60 + 0
end_utc == ((TargetDay * 24 + 23 - AMSTERDAM_UTC_OFFSET) * 60 + 59) * 60 + 59

\* the days the relay loader runs on: with day 0 = Monday 2025-06-09 these
\* are 2025-06-16 and 2025-06-17, so the target dates are 2025-06-15 and
\* 2025-06-16
RelayDays == {7, 8}

Request(id, createdAt) == [id |-> id, createdAt |-> createdAt]

\* requests the relay API may list (the empty id stands for a missing one)
RelayItems ==
    {Request("a", Instant(5, 23, 30, 0, 0)),
     Request("a", Instant(6, 22, 30, 0, 0)),
     Request("b", Instant(5, 22, 0, 0, 0)),
     Request("b", NaT),
     Request("c", Instant(6, 21, 59, 59, 500)),
     Request("", Instant(6, 12, 0, 0, 0))}

PAGE_LIMIT == 50

\* pages fetched in one run, and requests on one page, at most
MaxPages == 2
MaxBatch == 1

RECURSIVE SeqsUpTo(_, _)
SeqsUpTo(S, n) ==
    IF n = 0 THEN {<<>>}
    ELSE LET shorter == SeqsUpTo(S, n - 1)
         IN  shorter \cup {Append(q, x) : q \in shorter, x \in S}

Batches == SeqsUpTo(RelayItems, IF MaxBatch < PAGE_LIMIT THEN MaxBatch ELSE PAGE_LIMIT)

\* continuation tokens; "" is no token
Tokens == {"", "t1", "t2"}

\* a merge that takes every item with an id, seen before or not
CollectWithoutSeen(batch, reqs, ids) ==
    <<reqs \o SelectSeq(batch, LAMBDA item : item.id # ""),
      ids \cup {batch[j].id : j \in 1..Len(batch)}>>

\* lines 318-322: the batch merged into <<all_requests, seen>>
RECURSIVE Collect(_, _, _)
Collect(batch, reqs, ids) ==
    IF batch = <<>> THEN <<reqs, ids>>
    ELSE LET item == Head(batch)
         IN  IF item.id # "" /\ item.id \notin ids
             THEN Collect(Tail(batch), Append(reqs, item), ids \cup {item.id})
             ELSE Collect(Tail(batch), reqs, ids)

\* payload.get("requests"), line 317, added to the items received so far;
\* an item that came before, field by field, is not recorded again
RECURSIVE Received(_, _)
Received(batch, items) ==
    IF batch = <<>> THEN items
    ELSE Received(Tail(batch),
                  IF Head(batch) \in Range(items) THEN items
                  ELSE Append(items, Head(batch)))

\* a request that never carries a cursor
ContinuationParamAbsent == ""

\* lines 311-313: the continuation parameter of the page request, "" when
\* the request carries none
ContinuationParam == continuation

\* one iteration of the pagination loop, lines 310-327; raise_for_status
\* or a transport exception ends the run with a traceback
RelayFetchPage ==
    /\ comp = "relay" /\ pc = "paginate" /\ pages < MaxPages
    /\ pages' = pages + 1
    /\ \/ /\ events' = Append(events, GetFailed("relay", ContinuationParam))
          /\ Exit(1)
          /\ UNCHANGED <<all_requests, seen, continuation, fetched, returned>>
       \/ \E batch \in Batches, token \in Tokens :
             /\ pages' = MaxPages => token = ""
             /\ fetched' = Received(batch, fetched)
             /\ returned' = Append(returned, token)
             /\ LET got == Collect(batch, all_requests, seen)
                IN  all_requests' = got[1] /\ seen' = got[2]
             /\ continuation' = token
             /\ IF token = ""
                THEN /\ events' = Append(events, Get("relay", ContinuationParam))
                     /\ pc' = "flatten"
                ELSE /\ events' = events \o <<Get("relay", ContinuationParam),
                                              Sleep("relay")>>
                     /\ pc' = "paginate"
             /\ UNCHANGED exitCode
    /\ UNCHANGED <<runVars, fxVars, rows, df_final, csv_body, ci, csv_file,
                   columns, csv_header>>

\* to_iso, then ensure_schema lines 181-184: the timestamp formatted as
\* 'YYYY-MM-DD HH:MM:SS' (UTC), which drops the fraction of a second
CreatedAt(req) ==
    IF req.createdAt.k = "ts"
    THEN [k |-> "ts", s |-> req.createdAt.s, ms |-> 0]
    ELSE NaT

\* lines 331-416, the columns the filter reads
Flatten(req) == [request_id |-> req.id, created_at |-> CreatedAt(req)]

\* keys of the row dictionaries, in the order the literal of lines 347-411
\* populates them
ROW_KEYS ==
    <<"request_id", "status", "created_at", "updated_at", "user",
      "recipient", "referrer", "slippage_tolerance_bps",
      "subsidized_request", "uses_external_liquidity", "time_estimate_min",
      "fail_reason", "refund_fail_reason", "fee_gas", "fee_fixed",
      "fee_price", "fee_gateway", "fee_usd_gas", "fee_usd_fixed",
      "fee_usd_price", "fee_usd_gateway", "fee_currency_chain_id",
      "fee_currency_address", "fee_currency_symbol",
      "fee_currency_decimals", "quoted_price_out_atomic", "in_chain_id",
      "in_chain_name", "in_address", "in_symbol", "in_decimals",
      "in_amount_atomic", "in_amount_formatted", "in_amount_usd",
      "in_min_amount_atomic", "out_chain_id", "out_chain_name",
      "out_address", "out_symbol", "out_decimals", "out_amount_atomic",
      "out_amount_formatted", "out_amount_usd", "out_min_amount_atomic",
      "rate_out_per_in", "origin_router", "dest_router",
      "origin_input_address", "origin_output_address",
      "dest_input_address", "dest_output_address">>

\* pd.DataFrame(rows), line 413: the columns are the keys of the rows; a
\* frame built from no row has no column
FrameColumns(reqs) == IF reqs = <<>> THEN <<>> ELSE ROW_KEYS

\* the column order of ensure_schema, lines 155-178
cols ==
    <<"request_id", "status", "created_at", "updated_at", "user",
      "recipient", "referrer", "slippage_tolerance_bps",
      "subsidized_request", "uses_external_liquidity", "time_estimate_min",
      "fail_reason", "refund_fail_reason", "fee_gas", "fee_fixed",
      "fee_price", "fee_gateway", "fee_usd_gas", "fee_usd_fixed",
      "fee_usd_price", "fee_usd_gateway", "fee_currency_chain_id",
      "fee_currency_address", "fee_currency_symbol",
      "fee_currency_decimals", "quoted_price_out_atomic", "in_chain_id",
      "in_chain_name", "in_address", "in_symbol", "in_decimals",
      "in_amount_atomic", "in_amount_formatted", "in_amount_usd",
      "in_min_amount_atomic", "out_chain_id", "out_chain_name",
      "out_address", "out_symbol", "out_decimals", "out_amount_atomic",
      "out_amount_formatted", "out_amount_usd", "out_min_amount_atomic",
      "rate_out_per_in", "origin_router", "dest_router",
      "origin_input_address", "origin_output_address",
      "dest_input_address", "dest_output_address">>

\* df.reindex(columns=labels), line 179: the frame gets exactly these
\* labels in this order; a label the frame lacks becomes an empty column
\* and a column that is not among the labels is dropped
Reindex(frame_columns, labels) == [j \in 1..Len(labels) |-> labels[j]]

HELPER_COLUMN == "_created_at_ts"

\* df["_created_at_ts"] = ..., line 419: a new column goes last
WithHelper(frame_columns) ==
    IF HELPER_COLUMN \in Range(frame_columns) THEN frame_columns
    ELSE Append(frame_columns, HELPER_COLUMN)

\* a drop that removes nothing
DropHelperKeepsAll(frame_columns) == frame_columns

\* .drop(columns=["_created_at_ts"]), line 423
DropHelper(frame_columns) ==
    SelectSeq(frame_columns, LAMBDA c : c # HELPER_COLUMN)

\* the columns of df_day, lines 413-423
DayColumns(reqs) ==
    DropHelper(WithHelper(Reindex(FrameColumns(reqs), cols)))

\* a mask that leaves out the last second of the day
InWindowEndExclusive(r) ==
    /\ r.created_at.k = "ts"
    /\ r.created_at.s >= start_utc
    /\ r.created_at.s < end_utc

\* the mask of line 422
InWindow(r) ==
    /\ r.created_at.k = "ts"
    /\ r.created_at.s >= start_utc
    /\ r.created_at.s <= end_utc

\* a filter step that ends the run only when nothing at all was fetched
RelayFilterTestsAllRows ==
    /\ comp = "relay" /\ pc = "flatten"
    /\ rows' = [j \in 1..Len(all_requests) |-> Flatten(all_requests[j])]
    /\ df_final' = SelectSeq(rows', InWindow)
    /\ columns' = DayColumns(all_requests)
    /\ IF rows' = <<>> THEN Exit(0)
       ELSE pc' = "write_csv" /\ UNCHANGED exitCode
    /\ UNCHANGED <<runVars, fxVars, events, csv_body, ci, all_requests, seen,
                   continuation, pages, csv_file, csv_header, fetched,
                   returned>>

\* lines 330-428
RelayFilter ==
    /\ comp = "relay" /\ pc = "flatten"
    /\ rows' = [j \in 1..Len(all_requests) |-> Flatten(all_requests[j])]
    /\ df_final' = SelectSeq(rows', InWindow)
    /\ columns' = DayColumns(all_requests)
    /\ IF df_final' = <<>> THEN Exit(0)
       ELSE pc' = "write_csv" /\ UNCHANGED exitCode
    /\ UNCHANGED <<runVars, fxVars, events, csv_body, ci, all_requests, seen,
                   continuation, pages, csv_file, csv_header, fetched,
                   returned>>

\* lines 430-433
RelayWriteCsv ==
    /\ comp = "relay" /\ pc = "write_csv"
    /\ csv_file' = df_final
    /\ csv_header' = columns
    /\ events' = Append(events, WriteCsv)
    /\ pc' = "create"
    /\ UNCHANGED <<runVars, fxVars, exitCode, rows, df_final, csv_body, ci,
                   all_requests, seen, continuation, pages, columns, fetched,
                   returned>>

\* a check that takes every status below 500 for success
CreateAcceptedBelow500(r) == r.status < 500

\* a check that takes only 200 for success
CreateAcceptedOnly200(r) == r.status = HTTP_OK

\* the statuses create_table_if_needed accepts, line 269
CreateAccepted(r) == r.status \in {HTTP_OK, 201, 409}

\* create_table_if_needed, lines 193-277
RelayCreate ==
    /\ comp = "relay" /\ pc = "create"
    /\ IF ~DUNE_API_KEY
       THEN Exit(1) /\ UNCHANGED events
       ELSE \E r \in CreateOutcomes :
               /\ events' = Append(events, Post("create", r, CreateAccepted(r)))
               /\ IF ~r.err /\ CreateAccepted(r)
                  THEN pc' = "insert" /\ UNCHANGED exitCode
                  ELSE Exit(1)
    /\ UNCHANGED <<runVars, fxVars, rows, df_final, csv_body, ci, relayVars>>

\* the insert response insert_csv accepts, line 281
InsertAccepted(r) == r.status = HTTP_OK

\* lines 437-439 with insert_csv, lines 279-283
RelayInsert ==
    /\ comp = "relay" /\ pc = "insert"
    /\ csv_body' = csv_file
    /\ \E r \in PostOutcomes :
          /\ events' = Append(events, Post("insert", r, InsertAccepted(r)))
          /\ IF ~r.err /\ InsertAccepted(r) THEN Exit(0) ELSE Exit(1)
    /\ UNCHANGED <<runVars, fxVars, rows, df_final, ci, relayVars>>

----------------------------------------------------------------------------
(* One run of one script *)

Components == {"daily", "backfill", "update", "sync", "relay"}

Start(c) ==
    CASE c = "backfill" -> "start"
      [] c = "relay" -> "paginate"
      [] OTHER -> "fetch"

Init ==
    /\ comp \in Components
    /\ pc = Start(comp)
    /\ exitCode = 0
    /\ events = <<>>
    /\ today \in (IF comp = "backfill" THEN Days
                  ELSE IF comp = "relay" THEN RelayDays ELSE {Min(Days)})
    /\ DUNE_API_KEY \in (IF comp = "relay" THEN BOOLEAN ELSE {TRUE})
    /\ rates = <<>>
    /\ df_friday = <<>>
    /\ df_monday = <<>>
    /\ rows = <<>>
    /\ df_final = <<>>
    /\ csv_body = <<>>
    /\ ci = 1
    /\ all_requests = <<>>
    /\ seen = {}
    /\ continuation = ""
    /\ pages = 0
    /\ csv_file = <<>>
    /\ columns = <<>>
    /\ csv_header = <<>>
    /\ fetched = <<>>
    /\ returned = <<>>

Next ==
    \/ DailyFetch \/ DailyTransform \/ DailyBackfill \/ DailyCleanUp
    \/ DailyUpload
    \/ UpdateFetch \/ UpdateTransform \/ UpdateCleanUp \/ UpdateUpload
    \/ BackfillGate \/ BackfillFetchFriday \/ BackfillFetchMonday
    \/ BackfillBuild \/ BackfillUpload
    \/ SyncFetch \/ SyncCombine \/ SyncCreate \/ SyncClear \/ SyncInsert
    \/ RelayFetchPage \/ RelayFilter \/ RelayWriteCsv \/ RelayCreate
    \/ RelayInsert

Spec == Init /\ [][Next]_vars

\* the relay loader is one sequential process: its pagination loop takes
\* the next iteration as long as it has one (requests.get returns or
\* raises within its timeout)
FairSpec == Spec /\ WF_vars(RelayFetchPage)

----------------------------------------------------------------------------
(* Properties *)

IsPost(e, to) == e.op = "POST" /\ e.to = to
IsNetwork(e) == e.op \in {"GET", "POST"}
Requests(to) == {j \in 1..Len(events) : IsPost(events[j], to)}

\* the scripts that only insert a CSV
FxUploaders == {"daily", "backfill", "update"}

\* C1: in the daily loader, the weekend backfill and the daily update, an
\* insert response with a status other than 200, or an exception raised by
\* the insert POST, ends the run with a non-zero exit status.
C1_InsertFailureIsFatal ==
    (/\ comp \in FxUploaders /\ pc = "exit"
     /\ \E j \in Requests("insert") :
           events[j].err \/ events[j].status # HTTP_OK)
    => exitCode # 0

\* C2: without DUNE_API_KEY the relay loader makes no network call at all:
\* no GET to the relay API, no POST to the destination service.
C2_NoNetworkCallWithoutKey ==
    (comp = "relay" /\ ~DUNE_API_KEY)
    => \A j \in 1..Len(events) : ~IsNetwork(events[j])

\* C3: the weekend backfill started on a day other than Monday makes no
\* network call, builds no row, posts nothing and ends with a non-zero
\* exit status as its first step.
C3_MondayGate ==
    (comp = "backfill" /\ Weekday(today) # 0)
    => /\ events = <<>>
       /\ rows = <<>> /\ df_final = <<>> /\ csv_body = <<>>
       /\ pc = "start" \/ (pc = "exit" /\ exitCode # 0)

C3_Witness == comp = "backfill" /\ Weekday(today) # 0 /\ pc = "exit"

\* the pagination loop of the relay loader has ended without an exception
Paginated ==
    /\ comp = "relay" /\ pc # "paginate"
    /\ \A j \in 1..Len(events) : ~events[j].err \/ events[j].to # "relay"

\* the created_at column of a request (whole seconds) lies in the window
CreatedInWindow(req) ==
    /\ req.createdAt.k = "ts"
    /\ start_utc <= req.createdAt.s /\ req.createdAt.s <= end_utc

NoneInWindow == \A j \in 1..Len(all_requests) : ~CreatedInWindow(all_requests[j])

\* C4: when no fetched request has created_at in the target day's window,
\* the relay loader ends with exit status 0 and has written no CSV file and
\* sent neither the create nor the insert request.
C4_EmptyDay ==
    (Paginated /\ pc # "flatten" /\ NoneInWindow)
    => /\ pc = "exit" /\ exitCode = 0
       /\ csv_file = <<>>
       /\ \A j \in 1..Len(events) : events[j].op \notin {"write", "POST"}

C4_Witness ==
    Paginated /\ pc = "exit" /\ NoneInWindow /\ all_requests # <<>>

\* C5: in the relay loader an insert is sent only after a create of the
\* same run was answered 200, 201 or 409; any other create outcome ends
\* the run with a non-zero status and without an insert; an insert that is
\* not answered 200 ends the run with a non-zero status.
C5_CreateBeforeInsert ==
    comp = "relay" =>
    /\ \A i \in Requests("insert") :
          \E j \in Requests("create") :
             j < i /\ ~events[j].err /\ events[j].status \in {200, 201, 409}
    /\ \A j \in Requests("create") :
          (events[j].err \/ events[j].status \notin {200, 201, 409})
          => pc = "exit" /\ exitCode # 0 /\ Requests("insert") = {}
    /\ \A i \in Requests("insert") :
          (events[i].err \/ events[i].status # 200)
          => pc = "exit" /\ exitCode # 0

C5_Witness ==
    /\ comp = "relay" /\ pc = "exit" /\ exitCode # 0
    /\ Requests("insert") # {}

\* a create response that is neither 200 nor says the table exists
CreateRejected(e) ==
    ~e.err /\ e.status # 200 /\ e.text # "already exists"

\* C6: in the bulk sync a create response that is neither 200 nor
\* "already exists" is fatal: the run stops, no clear and no insert follow.
C6_CreateFailureIsFatal ==
    comp = "sync" =>
    \A j \in Requests("create") :
       CreateRejected(events[j])
       => Requests("clear") = {} /\ Requests("insert") = {}

\* the run ended right after its j-th recorded step without success
StoppedAt(j) == pc = "exit" /\ exitCode # 0 /\ Len(events) = j

\* C7 as stated: in the relay loader and the bulk sync a create response
\* with status 200, 201 or 409, or with a body containing "already exists",
\* counts as success and does not fail the run.
C7_AnyAlreadyExistsIsSuccess ==
    comp \in {"relay", "sync"} =>
    \A j \in Requests("create") :
       (/\ ~events[j].err
        /\ \/ events[j].status \in {200, 201, 409}
           \/ events[j].text = "already exists")
       => events[j].verdict = "ok" /\ ~StoppedAt(j)

\* C7 amended: the relay loader takes a create response for success exactly
\* when its status is 200, 201 or 409; the bulk sync exactly when its
\* status is 200 or its body contains "already exists"; after a response
\* taken for success the run goes on to its next destination request.
C7_CreateIdempotent ==
    \A j \in Requests("create") :
       ~events[j].err =>
       /\ comp = "relay" =>
             (events[j].verdict = "ok" <=> events[j].status \in {200, 201, 409})
       /\ comp = "sync" =>
             (events[j].verdict = "ok" <=>
                 (events[j].status = 200 \/ events[j].text = "already exists"))
       /\ events[j].verdict = "ok" =>
             \/ Len(events) > j
             \/ pc = (IF comp = "relay" THEN "insert" ELSE "clear")

C7_Witness ==
    /\ comp = "relay"
    /\ \E j \in Requests("create") :
          events[j].status = 409 /\ Requests("insert") # {}

\* a rate that is present and not zero
Usable(x) == x.k # "nan" /\ x.k # "none" /\ ~(x.k = "num" /\ x.i = 0 /\ x.f = 0)

\* C8: no row of a CSV body posted by the daily loader, the weekend
\* backfill or the daily update has a zero or absent fx_rate or
\* inverse_fx_rate.
C8_NoZeroRateUploaded ==
    comp \in FxUploaders =>
    \A j \in 1..Len(csv_body) :
       Usable(csv_body[j].fx_rate) /\ Usable(csv_body[j].inverse_fx_rate)

\* an upload from which the clean-up removed a row
C8_Witness ==
    /\ comp \in FxUploaders /\ Requests("insert") # {}
    /\ 0 < Len(csv_body) /\ Len(csv_body) < Len(rows)

\* a float that is present and not zero
UsableFloat(x) == x.k # "nan" /\ ~(x.k = "num" /\ x.n = 0)

\* C9: no row of the dataset uploaded by the bulk sync has a zero or absent
\* fx_rate or inverse_fx_rate.
C9_SyncNoZeroRateUploaded ==
    comp = "sync" =>
    \A j \in 1..Len(csv_body) :
       UsableFloat(csv_body[j].fx_rate) /\ UsableFloat(csv_body[j].inverse_fx_rate)

----------------------------------------------------------------------------
(* Exact products of 8-decimal values: naturals as little-endian sequences *)
(* of base-10000 limbs                                                     *)

LIMB == Pow10(4)

\* an 8-decimal value in units of 1e-8
Limbs(x) ==
    <<x.f % LIMB, x.f \div LIMB, x.i % LIMB, (x.i \div LIMB) % LIMB,
      x.i \div (LIMB * LIMB)>>

At(a, j) == IF j >= 1 /\ j <= Len(a) THEN a[j] ELSE 0

RECURSIVE SumTo(_, _, _, _)
SumTo(a, b, k, j) ==
    IF j > k THEN 0 ELSE At(a, j) * At(b, k + 1 - j) + SumTo(a, b, k, j + 1)

RECURSIVE Carried(_, _, _)
Carried(sums, j, carry) ==
    IF j > Len(sums) THEN (IF carry = 0 THEN <<>> ELSE <<carry>>)
    ELSE <<(sums[j] + carry) % LIMB>>
         \o Carried(sums, j + 1, (sums[j] + carry) \div LIMB)

BigMul(a, b) ==
    Carried([k \in 1..(Len(a) + Len(b)) |-> SumTo(a, b, k, 1)], 1, 0)

BigAdd(a, b) ==
    LET n == IF Len(a) > Len(b) THEN Len(a) ELSE Len(b)
    IN  Carried([k \in 1..n |-> At(a, k) + At(b, k)], 1, 0)

RECURSIVE LeqFrom(_, _, _)
LeqFrom(a, b, j) ==
    IF j = 0 THEN TRUE
    ELSE IF At(a, j) # At(b, j) THEN At(a, j) < At(b, j)
    ELSE LeqFrom(a, b, j - 1)

BigLeq(a, b) == LeqFrom(a, b, IF Len(a) > Len(b) THEN Len(a) ELSE Len(b))

\* 1 in units of 1e-16, and the tolerance 1e-6 in the same units
BigOne == <<0, 0, 0, 0, 1>>
BigTolerance == <<0, 0, 100>>

Product(r) == BigMul(Limbs(r.fx_rate), Limbs(r.inverse_fx_rate))
RateSum(r) == BigAdd(Limbs(r.fx_rate), Limbs(r.inverse_fx_rate))

\* | fx_rate * inverse_fx_rate - 1 | <= 1e-6
Within1e6(r) ==
    /\ BigLeq(Product(r), BigAdd(BigOne, BigTolerance))
    /\ BigLeq(BigOne, BigAdd(Product(r), BigTolerance))

\* | fx_rate * inverse_fx_rate - 1 | <= 0.5e-8 * (fx_rate + inverse_fx_rate)
WithinHalfUnit(r) ==
    /\ BigLeq(BigAdd(Product(r), Product(r)),
              BigAdd(BigAdd(BigOne, BigOne), RateSum(r)))
    /\ BigLeq(BigAdd(BigOne, BigOne),
              BigAdd(BigAdd(Product(r), Product(r)), RateSum(r)))

\* fx_rate + inverse_fx_rate <= 200
SumAtMost200(r) == BigLeq(RateSum(r), <<0, 0, 200>>)

\* C10 as stated: for every row uploaded by the daily loader, the weekend
\* backfill and the daily update, fx_rate * inverse_fx_rate differs from 1
\* by at most 1e-6.
C10_ReciprocalWithin1e6 ==
    comp \in FxUploaders =>
    \A j \in 1..Len(csv_body) : Within1e6(csv_body[j])

\* C10 amended: for every such row the product differs from 1 by at most
\* 0.5e-8 * (fx_rate + inverse_fx_rate), and so by at most 1e-6 whenever
\* fx_rate + inverse_fx_rate <= 200.
C10_ReciprocalWithinRounding ==
    comp \in FxUploaders =>
    \A j \in 1..Len(csv_body) :
       /\ WithinHalfUnit(csv_body[j])
       /\ SumAtMost200(csv_body[j]) => Within1e6(csv_body[j])

\* an uploaded row of a currency other than the base, within 1e-6
C10_Witness ==
    /\ comp \in FxUploaders /\ Requests("insert") # {}
    /\ \E j \in 1..Len(csv_body) :
          /\ csv_body[j].currency # BASE
          /\ SumAtMost200(csv_body[j])
          /\ csv_body[j].fx_rate # csv_body[j].inverse_fx_rate

----------------------------------------------------------------------------
(* Weekend interpolation *)

\* the frame holds a present, non-zero close for the pair of a currency
HasClose(df, cur) ==
    \E j \in 1..Len(df) :
       /\ df[j].instrument = <<cur, BASE>>
       /\ df[j].close.k = "num" /\ df[j].close.n # 0

\* that close (a frame holds one row per pair at most)
CloseOf(df, cur) ==
    (CHOOSE q \in Range(df) : q.instrument = <<cur, BASE>>).close

\* positions of the rows built for a date and a currency
RowsOf(date, cur) ==
    {j \in 1..Len(rows) : rows[j].date = date /\ rows[j].currency = cur}

\* the weekend backfill has fetched both snapshots and gone through the
\* construction of the rows
BackfillBuilt ==
    /\ comp = "backfill" /\ Weekday(today) = 0
    /\ pc \in {"upload", "exit"}
    /\ df_friday # NoFrame /\ df_monday # NoFrame

\* the rows of one weekend day: one row per currency quoted on both days,
\* with the blend of weights wf/3 and wm/3, none for another currency, and
\* one base row of rate 1.0
WeekendDayRows(date, wf, wm) ==
    /\ \A cur \in Range(BackfillUniverse) \ {BASE} :
          IF HasClose(df_friday, cur) /\ HasClose(df_monday, cur)
          THEN /\ Cardinality(RowsOf(date, cur)) = 1
               /\ \A j \in RowsOf(date, cur) :
                     rows[j].fx_rate =
                        Round8(RatAdd(Thirds(wf, CloseOf(df_friday, cur)),
                                      Thirds(wm, CloseOf(df_monday, cur))))
          ELSE RowsOf(date, cur) = {}
    /\ Cardinality(RowsOf(date, BASE)) = 1
    /\ \A j \in RowsOf(date, BASE) :
          rows[j].fx_rate = FixOne /\ rows[j].inverse_fx_rate = FixOne

\* C11: in the weekend backfill every currency with a present, non-zero
\* close in both snapshots gets exactly one Saturday row with
\* fx_rate = round(2/3 F + 1/3 M, 8) and exactly one Sunday row with
\* fx_rate = round(1/3 F + 2/3 M, 8), a currency missing from either
\* snapshot gets no row, and each of the two days gets exactly one USD row
\* with both rates 1.0.
C11_WeekendInterpolation ==
    BackfillBuilt =>
       /\ WeekendDayRows(today - 2, 2, 1)
       /\ WeekendDayRows(today - 1, 1, 2)

\* the same for the runs in which the construction of the rows did not
\* raise
C11_InterpolationUnlessRaised ==
    (BackfillBuilt /\ (pc = "upload" \/ Requests("insert") # {})) =>
       /\ WeekendDayRows(today - 2, 2, 1)
       /\ WeekendDayRows(today - 1, 1, 2)

----------------------------------------------------------------------------
(* Day window of the relay loader *)

SECONDS_PER_DAY == 24 * 60 * 60

\* 00:00:00 Europe/Amsterdam of a day, in UTC seconds
LocalMidnight(d) == d * SECONDS_PER_DAY - AMSTERDAM_UTC_OFFSET * 60 * 60

\* t lies between local 00:00:00 and local 23:59:59 of the target date
InTargetDay(t) ==
    /\ t.k = "ts"
    /\ LocalMidnight(today - 1) <= t.s
    /\ t.s <= LocalMidnight(today - 1) + SECONDS_PER_DAY - 1

Uploaded(id) == \E k \in 1..Len(csv_body) : csv_body[k].request_id = id

\* C12: in a relay-loader run that uploads, a fetched request is among the
\* uploaded rows if and only if its created_at lies between local 00:00:00
\* and local 23:59:59 (both included) of the target Europe/Amsterdam date;
\* for target date 2025-06-15 a request created at 2025-06-14T23:30:00Z is
\* uploaded and one created at 2025-06-15T22:30:00Z is not.
C12_DayWindow ==
    (comp = "relay" /\ Requests("insert") # {}) =>
       /\ \A j \in 1..Len(all_requests) :
             Uploaded(all_requests[j].id)
             <=> InTargetDay(CreatedAt(all_requests[j]))
       /\ \A k \in 1..Len(csv_body) :
             \E j \in 1..Len(all_requests) :
                csv_body[k] = Flatten(all_requests[j])
       /\ today = 7 =>
             \A j \in 1..Len(all_requests) :
                /\ all_requests[j].createdAt = Instant(5, 23, 30, 0, 0)
                      => Uploaded(all_requests[j].id)
                /\ all_requests[j].createdAt = Instant(6, 22, 30, 0, 0)
                      => ~Uploaded(all_requests[j].id)

\* a run for target date 2025-06-15 that uploads the request created in
\* the last second of the day and leaves out a request created before the
\* day began
C12_Witness ==
    /\ comp = "relay" /\ today = 7 /\ Requests("insert") # {}
    /\ \E j \in 1..Len(all_requests) :
          /\ CreatedAt(all_requests[j]).s = end_utc
          /\ Uploaded(all_requests[j].id)
    /\ \E j \in 1..Len(all_requests) : ~Uploaded(all_requests[j].id)

----------------------------------------------------------------------------
(* Column order of the relay upload *)

\* the relay request upload schema: the columns of the relay_requests table
\* in their fixed order
RelayUploadSchema ==
    <<"request_id", "status", "created_at", "updated_at", "user",
      "recipient", "referrer", "slippage_tolerance_bps",
      "subsidized_request", "uses_external_liquidity", "time_estimate_min",
      "fail_reason", "refund_fail_reason", "fee_gas", "fee_fixed",
      "fee_price", "fee_gateway", "fee_usd_gas", "fee_usd_fixed",
      "fee_usd_price", "fee_usd_gateway", "fee_currency_chain_id",
      "fee_currency_address", "fee_currency_symbol",
      "fee_currency_decimals", "quoted_price_out_atomic", "in_chain_id",
      "in_chain_name", "in_address", "in_symbol", "in_decimals",
      "in_amount_atomic", "in_amount_formatted", "in_amount_usd",
      "in_min_amount_atomic", "out_chain_id", "out_chain_name",
      "out_address", "out_symbol", "out_decimals", "out_amount_atomic",
      "out_amount_formatted", "out_amount_usd", "out_min_amount_atomic",
      "rate_out_per_in", "origin_router", "dest_router",
      "origin_input_address", "origin_output_address",
      "dest_input_address", "dest_output_address">>

\* C13: in every relay-loader run that reaches the upload, the header of
\* the uploaded CSV is exactly the column sequence of the relay request
\* upload schema, in that order, without the helper column _created_at_ts,
\* with no other extra column and no column missing.
C13_ColumnOrder ==
    (comp = "relay" /\ Requests("insert") # {}) =>
       /\ csv_header = RelayUploadSchema
       /\ HELPER_COLUMN \notin Range(csv_header)

\* a run that has uploaded rows under that header
C13_Witness ==
    /\ comp = "relay" /\ Requests("insert") # {}
    /\ csv_body # <<>>
    /\ Len(csv_header) = Len(RelayUploadSchema)

----------------------------------------------------------------------------
(* De-duplication across pages *)

\* position in `fetched` of the first item carrying an id
FirstFetched(id) ==
    Min({k \in 1..Len(fetched) : fetched[k].id = id})

\* C14: after the pagination loop of the relay loader the collected list
\* holds no request id twice, holds every non-empty id that appeared on a
\* fetched page and no other, and holds for each id the item of its first
\* occurrence, in the order of the first occurrences.
C14_DedupAcrossPages ==
    Paginated =>
       /\ \A i, j \in 1..Len(all_requests) :
             all_requests[i].id = all_requests[j].id => i = j
       /\ {all_requests[j].id : j \in 1..Len(all_requests)}
             = {fetched[k].id : k \in 1..Len(fetched)} \ {""}
       /\ \A j \in 1..Len(all_requests) :
             all_requests[j] = fetched[FirstFetched(all_requests[j].id)]
       /\ \A i, j \in 1..Len(all_requests) :
             i < j => FirstFetched(all_requests[i].id)
                         < FirstFetched(all_requests[j].id)

\* a later page repeated an id with other content, and a page listed an
\* item without id
C14_Witness ==
    /\ Paginated
    /\ \E k, l \in 1..Len(fetched) :
          k < l /\ fetched[k].id = fetched[l].id /\ fetched[k] # fetched[l]
          /\ fetched[k].id # ""
    /\ all_requests # <<>>

----------------------------------------------------------------------------
(* Pagination of the relay loader *)

IsPageRequest(e) == e.op = "GET" /\ e.to = "relay"

\* the number of page requests among the first j entries of the record
PageRequestsUpTo(j) ==
    Cardinality({i \in 1..j : IsPageRequest(events[i])})

\* every page request after the first carries the continuation of the
\* response before it and follows that response after exactly one pacing
\* sleep; the first carries none; only the last response may lack a
\* continuation, and after such a response no page request is issued
PageRequestsChained ==
    comp = "relay" =>
       /\ \A j \in 1..Len(events) :
             IsPageRequest(events[j]) =>
                LET k == PageRequestsUpTo(j)
                IN  IF k = 1
                    THEN j = 1 /\ events[j].token = ""
                    ELSE /\ k - 1 <= Len(returned)
                         /\ events[j].token = returned[k - 1]
                         /\ events[j - 1] = Sleep("relay")
                         /\ IsPageRequest(events[j - 2])
       /\ \A k \in 1..Len(returned) - 1 : returned[k] # ""
       /\ (returned # <<>> /\ returned[Len(returned)] = "") =>
             /\ pc # "paginate"
             /\ PageRequestsUpTo(Len(events)) = Len(returned)
       /\ (returned # <<>> /\ returned[Len(returned)] # "") =>
             pc = "paginate" \/ PageRequestsUpTo(Len(events)) = Len(returned) + 1

\* C15: the pagination of the relay loader goes on until a response comes
\* without continuation token: each page request after the first carries
\* the token of the response before it, one pacing sleep separates two
\* consecutive page requests, no page request follows a response without
\* token, and the loop ends when the provider returns a page without token
\* after finitely many pages.
C15_Pagination ==
    /\ []PageRequestsChained
    /\ (comp = "relay" /\ pc = "paginate") ~> (pc # "paginate")

\* a run whose loop ended after two pages, the first with a token
C15_Witness ==
    /\ comp = "relay" /\ pc # "paginate"
    /\ Len(returned) >= 2 /\ returned[1] # "" /\ returned[Len(returned)] = ""
    /\ PageRequestsUpTo(Len(events)) = Len(returned)

----------------------------------------------------------------------------
(* Destination requests and pacing of the bulk sync *)

\* the destinations of the POSTs of the run, in the order they were issued
Posted == [j \in 1..Len(SelectSeq(events, LAMBDA e : e.op = "POST")) |->
              SelectSeq(events, LAMBDA e : e.op = "POST")[j].to]

\* the clear request got a response with a status other than 200
ClearRejected ==
    \E j \in Requests("clear") : ~events[j].err /\ events[j].status # HTTP_OK

\* C16: the bulk sync issues its destination requests in the order create,
\* clear, insert, each at most once, and a clear response other than 200
\* does not end the run: the insert request is issued after it.
C16_CreateClearInsert ==
    comp = "sync" =>
       /\ Posted \in {<<>>, <<"create">>, <<"create", "clear">>,
                      <<"create", "clear", "insert">>}
       /\ ClearRejected =>
             \/ pc = "insert"
             \/ Posted = <<"create", "clear", "insert">>

\* a finished run whose clear request was rejected
C16_Witness ==
    /\ comp = "sync" /\ pc = "exit"
    /\ ClearRejected
    /\ Requests("insert") # {}

IsQuoteRequest(e) == e.op = "GET" /\ e.to = "yahoo"

\* C17: in the bulk sync one pacing pause lies between the quote-source
\* requests of any two consecutive currencies, whether or not the earlier
\* fetch returned data.
C17_PauseBetweenCurrencies ==
    comp = "sync" =>
       \A j \in 2..Len(events) :
          (IsQuoteRequest(events[j]) /\ events[j].token = "primary")
          => events[j - 1] = Sleep("yahoo")

----------------------------------------------------------------------------
(* Rows of the daily loader *)

\* a provider rate that is a number other than zero
PresentNonZero(fx) == fx.k = "num" /\ fx.n # 0

\* such a rate whose 8-decimal value and 8-decimal reciprocal are not 0.0
SurvivesRounding(fx) ==
    /\ PresentNonZero(fx)
    /\ ~IsZeroFix(Round8(fx)) /\ ~IsZeroFix(Round8(Recip(fx)))

\* the table of the daily loader holds one row per currency at most, all
\* of the run's own date: no weekend row was synthesized
OneRowPerCurrency ==
    /\ \A i, j \in 1..Len(rows) : rows[i].currency = rows[j].currency => i = j
    /\ \A j \in 1..Len(rows) : rows[j].date = today

\* every uploaded row carries the run's own date
UploadedToday == \A j \in 1..Len(csv_body) : csv_body[j].date = today

\* C18 as stated: in every run of the daily loader each currency has one
\* row at most in the table given to backfill_weekend_rates and in the
\* table it returns, every uploaded row carries the run's own date, and the
\* number of uploaded rows is the number of currencies with a present,
\* non-zero provider rate.
C18_OneRowPerPresentRate ==
    comp = "daily" =>
       /\ OneRowPerCurrency
       /\ Requests("insert") # {} =>
             /\ UploadedToday
             /\ Len(csv_body) =
                   Cardinality({c \in Range(DailyUniverse) :
                                   PresentNonZero(rates[c])})

\* C18 amended: the same, the number of uploaded rows being the number of
\* currencies whose provider rate is a number other than zero with a
\* non-zero value and a non-zero reciprocal at 8 decimals.
C18_OneRowPerRoundedRate ==
    comp = "daily" =>
       /\ OneRowPerCurrency
       /\ Requests("insert") # {} =>
             /\ UploadedToday
             /\ Len(csv_body) =
                   Cardinality({c \in Range(DailyUniverse) :
                                   SurvivesRounding(rates[c])})

\* an upload of a run in which one currency had a rate whose reciprocal
\* rounds to 0.0 and another a rate that does not
C18_Witness ==
    /\ comp = "daily" /\ Requests("insert") # {}
    /\ \E c \in Range(DailyUniverse) :
          PresentNonZero(rates[c]) /\ ~SurvivesRounding(rates[c])
    /\ \E j \in 1..Len(csv_body) : csv_body[j].currency # BASE

====
